---- MODULE Spec2Model ----
(***************************************************************************)
(* OutRunna (src/streamlit_app.py): the plan generator, the recalibration  *)
(* pass and the Streamlit script that drives them, as a state machine.     *)
(*                                                                         *)
(* One step of the machine is one user interaction followed by one full    *)
(* run of the script (Streamlit re-runs the script after every widget      *)
(* change or button click).                                                *)
(*                                                                         *)
(* Representation                                                          *)
(*   - A text the code parses or formats ("25:00") is a sequence of        *)
(*     one-character strings, so split(':'), int() and the f-strings are   *)
(*     modelled on characters.  A pace annotation is a sequence of such    *)
(*     characters and literal chunks.                                      *)
(*   - A float holding weekly minutes is an integer number of tenths of a  *)
(*     minute (every such value is the result of round(x, 1)).             *)
(*   - A float holding a time or a pace is an integer number of ticks,     *)
(*     one tick = 1/100000 second.                                         *)
(*   - A date is a number of days after today(); the session is taken to   *)
(*     happen within one day.                                              *)
(***************************************************************************)
EXTENDS Integers, Sequences, FiniteSets, TLC

VARIABLES
    goal,        \* st.selectbox('Goal Distance')
    pr_input,    \* st.text_input('Your 5K PR (MM:SS)')
    race_date,   \* st.date_input('Race Date'), days after today
    tt_widget,   \* the text_input widgets keyed tt_<i>: slot index -> text
    plan,        \* st.session_state['plan']: absent, None or a list of weeks
    pr,          \* st.session_state['pr']
    tt_inputs,   \* st.session_state['tt_inputs']: slot index -> text
    tt_targets,  \* st.session_state['tt_targets']: date -> <<low, high>>
    view,        \* what the last run of the script wrote to the page
    gen          \* history: the inputs of the last call of generate_plan

vars == <<goal, pr_input, race_date, tt_widget, plan, pr, tt_inputs,
          tt_targets, view, gen>>

(***************************************************************************)
(* Bounds of the model.                                                    *)
(***************************************************************************)
\* the race dates the user can pick are today + k * DateStep, up to MaxDays
MaxDays == 56
DateStep == 30

(***************************************************************************)
(* Texts.                                                                  *)
(***************************************************************************)
Digits == <<"0", "1", "2", "3", "4", "5", "6", "7", "8", "9">>

DigitChars == {Digits[i] : i \in 1..10}

DigitVal(c) == (CHOOSE i \in 1..10 : Digits[i] = c) - 1

\* str(n) for an integer n
RECURSIVE NatToText(_)
NatToText(n) ==
    IF n < 10 THEN <<Digits[n + 1]>>
    ELSE NatToText(n \div 10) \o <<Digits[(n % 10) + 1]>>

IntToText(n) == IF n < 0 THEN <<"-">> \o NatToText(-n) ELSE NatToText(n)

\* f"{n:02d}": zero-padded to width 2, the sign counted in the width
Pad2(n) == IF n >= 0 /\ n < 10 THEN <<"0">> \o NatToText(n) ELSE IntToText(n)

\* str.split(':'): the pieces between the colons, in order
RECURSIVE SplitColon(_, _, _)
SplitColon(text, i, cur) ==
    IF i > Len(text) THEN <<cur>>
    ELSE IF text[i] = ":" THEN <<cur>> \o SplitColon(text, i + 1, <<>>)
    ELSE SplitColon(text, i + 1, Append(cur, text[i]))

RECURSIVE DigitsValue(_)
DigitsValue(ds) ==
    IF ds = <<>> THEN 0
    ELSE 10 * DigitsValue(SubSeq(ds, 1, Len(ds) - 1)) + DigitVal(ds[Len(ds)])

\* whether int(piece) returns (an optional sign, then one or more digits)
IsIntText(piece) ==
    LET body == IF piece # <<>> /\ piece[1] \in {"-", "+"} THEN Tail(piece) ELSE piece
    IN  body # <<>> /\ \A i \in 1..Len(body) : body[i] \in DigitChars

IntOfText(piece) ==
    IF piece[1] = "-" THEN 0 - DigitsValue(Tail(piece))
    ELSE IF piece[1] = "+" THEN DigitsValue(Tail(piece))
    ELSE DigitsValue(piece)

\* `m, s = map(int, text.split(':'))` does not raise ValueError
ParsesMMSS(text) ==
    LET parts == SplitColon(text, 1, <<>>)
    IN  Len(parts) = 2 /\ IsIntText(parts[1]) /\ IsIntText(parts[2])

\* mins * 60 + secs of a text that parses
SecondsOf(text) ==
    LET parts == SplitColon(text, 1, <<>>)
    IN  IntOfText(parts[1]) * 60 + IntOfText(parts[2])

HasColon(text) == \E i \in 1..Len(text) : text[i] = ":"

(***************************************************************************)
(* Arithmetic on the fixed-point values.                                   *)
(***************************************************************************)
TicksPerSecond == 10 * 10000

\* round(n / d) for n >= 0, d > 0, ties to the even integer: Python's round()
RoundDiv(n, d) ==
    LET q == n \div d
        r == n % d
    IN  IF 2 * r < d THEN q
        ELSE IF 2 * r > d THEN q + 1
        ELSE IF q % 2 = 0 THEN q ELSE q + 1

\* round(a * b / c) for a >= 0, 0 <= b, c > 0, without leaving 32 bits
MulDiv(a, b, c) == (a \div c) * b + RoundDiv((a % c) * b, c)

(***************************************************************************)
(* round(b * f, 1) on IEEE doubles (generate_wave, generate_plan).         *)
(*                                                                         *)
(* b is a number of minutes with one decimal (b10 tenths), f one of 1.0,   *)
(* 1.08, 1.16, 0.7, 0.5 (pct hundredths).  The exact product is            *)
(* b10 * pct / 100 tenths.  Away from a decimal tie (x.x5) the double      *)
(* product rounds as the exact one.  At a tie the double decides: the      *)
(* operators below compute on which side of the tie the double product     *)
(* lies, from the binary expansions of b and f.                            *)
(***************************************************************************)
RECURSIVE Pow2(_)
Pow2(k) == IF k = 0 THEN 1 ELSE 2 * Pow2(k - 1)

RECURSIVE Pow2Mod(_, _)
Pow2Mod(k, m) == IF k = 0 THEN 1 % m ELSE (2 * Pow2Mod(k - 1, m)) % m

\* floor(log2(num / den)) for num / den >= 1
RECURSIVE Log2Floor(_, _, _)
Log2Floor(num, den, e) ==
    IF num >= den * Pow2(e + 1) THEN Log2Floor(num, den, e + 1) ELSE e

\* At a tie t = b10 * pct / 1000 minutes: does round(b * f, 1) go up?
\* (52 is the number of mantissa bits of a double after the leading one.)
TieRoundsUp(b10, pct) ==
    LET N    == (b10 * pct) \div 10                \* t = N / 100, N ends in 5
        e    == Log2Floor(N, 100, 0)
        \* position of t between two neighbouring doubles, in hundredths
        rem  == ((N % 100) * Pow2Mod(52 - e, 100)) % 100
        even == (N \div 10) % 2 = 0
    IN  IF pct = 50
        THEN \* the product double(b) * 0.5 is exact
             IF rem = 0 THEN ~even
             ELSE \* b is not a double: the double nearest b is above b iff
                  LET eb == Log2Floor(b10, 10, 0)
                  IN  ((b10 % 10) * Pow2Mod(52 - eb, 10)) % 10 > 5
        ELSE \* pct = 70: b is a double (b10 ends in 5); double(0.7) is
             \* 0.7 - 0.4 * 2^-53, so the exact product lies
             \* 0.4 * b / 2^(e+1) below t, and is then rounded to a double
             LET den == 1000 * Pow2(e + 1)
                 num == rem * 10 * Pow2(e + 1) - 40 * b10
             IN  IF 2 * num > den THEN TRUE
                 ELSE IF rem = 0 /\ 2 * (0 - num) <= den THEN ~even
                 ELSE FALSE

\* round(b * f, 1) in tenths of a minute
Round1(b10, pct) ==
    LET N == b10 * pct
        q == N \div 100
        r == N % 100
    IN  IF r < 50 THEN q
        ELSE IF r > 50 THEN q + 1
        ELSE IF TieRoundsUp(b10, pct) THEN q + 1 ELSE q

(***************************************************************************)
(* Helper functions, lines 16-85.                                          *)
(***************************************************************************)
\* format_pace(minutes_per_mile) of a value >= 0 given in ticks
format_pace(ticks) ==
    LET perMinute == 60 * TicksPerSecond
        minutes   == ticks \div perMinute
        seconds   == RoundDiv(ticks % perMinute, TicksPerSecond)
    IN  NatToText(minutes) \o <<":">> \o Pad2(seconds)

\* (d2 / d1) ** 1.06 as RiegelNum / RiegelDen, distances in tenths of a mile
RiegelDen == 10 * 10000
RiegelNum(d1, d2) ==
    CASE d1 = d2             -> RiegelDen
      [] d1 = 20 /\ d2 = 31  -> 159130          \* (3.1 / 2) ** 1.06 = 1.5912983...
      [] d1 = 31 /\ d2 = 20  -> 62842           \* (2 / 3.1) ** 1.06 = 0.6284176...

\* predict_distance_time(time_str, d1, d2) in ticks; None is -1
NoneTime == 0 - 1
predict_distance_time(time_str, d1, d2) ==
    IF ParsesMMSS(time_str)
    THEN SecondsOf(time_str) * RiegelNum(d1, d2)
    ELSE NoneTime

\* base pace (mins * 60 + secs) / 3.1 / 60 of lines 186 and 223, in ticks
BasePace(seconds) == MulDiv(seconds, 10 * TicksPerSecond, 31)

\* the pace-range strings of rpe_to_pace_map ("-" stands for the en dash)
PaceRange(base_pace, lo, hi, tail) ==
    format_pace(base_pace + lo * TicksPerSecond) \o <<"-">>
        \o format_pace(base_pace + hi * TicksPerSecond) \o <<tail>>

rpe_to_pace_map(base_pace) ==
    [interval |-> PaceRange(base_pace, 0 - 18, 0 - 9, " min/mile (Intervals @ RPE 9)"),
     tempo    |-> PaceRange(base_pace, 15, 30, " min/mile (Tempo @ RPE 7)"),
     long     |-> PaceRange(base_pace, 45, 75, " min/mile (Long @ RPE 4)")]

\* compute_tt_target_range(pr_5k, wave_num, tt_dist): <<low, high>>
compute_tt_target_range(pr_5k, wave_num, tt_dist) ==
    LET baseline_tt == predict_distance_time(pr_5k, 31, tt_dist)
        \* max(0, 1 - 0.015 * wave_num) in two-hundredths
        factor      == IF 200 - 3 * wave_num > 0 THEN 200 - 3 * wave_num ELSE 0
        target_tt   == MulDiv(baseline_tt, factor, 200)
        low         == MulDiv(target_tt, 49, 50)
        high        == MulDiv(target_tt, 51, 50)
    IN  IF baseline_tt # NoneTime
        THEN <<format_pace(low), format_pace(high)>>
        ELSE <<<<"Invalid PR">>, <<"Invalid PR">>>>

\* format_time_difference(seconds)
format_time_difference(seconds) ==
    LET sign == IF seconds < 0 THEN "-" ELSE "+"
        a    == IF seconds < 0 THEN 0 - seconds ELSE seconds
    IN  <<sign>> \o Pad2(a \div 60) \o <<":">> \o Pad2(a % 60)

(***************************************************************************)
(* Goal distances and the strings derived from them.                       *)
(***************************************************************************)
GOALS == {"5K", "10K", "Half", "Marathon"}

\* str.lower() and str.upper() on the strings the code applies them to
Lower(s) ==
    CASE s \in {"5K", "5k"}                 -> "5k"
      [] s \in {"10K", "10k"}               -> "10k"
      [] s \in {"Half", "half"}             -> "half"
      [] s \in {"Marathon", "marathon"}     -> "marathon"
      [] s = "Norwegian 4x4"                -> "norwegian 4x4"
      [] s = "Tempo Run"                    -> "tempo run"
      [] s = "Long Run"                     -> "long run"
      [] s = "2 mile TT"                    -> "2 mile tt"
      [] s = "3.1 mile TT"                  -> "3.1 mile tt"
      [] s = "6x400m Strides"               -> "6x400m strides"
      [] s = "5K Race"                      -> "5k race"
      [] s = "10K Race"                     -> "10k race"
      [] s = "HALF Race"                    -> "half race"
      [] s = "MARATHON Race"                -> "marathon race"

Upper(s) ==
    CASE s \in {"5K", "5k"}                 -> "5K"
      [] s \in {"10K", "10k"}               -> "10K"
      [] s \in {"Half", "half"}             -> "HALF"
      [] s \in {"Marathon", "marathon"}     -> "MARATHON"

\* f"{goal.upper()} Race"
RaceName(goal_distance) ==
    CASE Upper(goal_distance) = "5K"        -> "5K Race"
      [] Upper(goal_distance) = "10K"       -> "10K Race"
      [] Upper(goal_distance) = "HALF"      -> "HALF Race"
      [] Upper(goal_distance) = "MARATHON"  -> "MARATHON Race"

\* f"{tt_dist} mile TT", tt_dist in tenths of a mile
TTName(tt_dist) == IF tt_dist = 20 THEN "2 mile TT" ELSE "3.1 mile TT"

(***************************************************************************)
(* Workout library and generate_week, lines 88-111.                        *)
(***************************************************************************)
workout_library ==
    [interval |-> [name |-> "Norwegian 4x4", duration |-> 40, rpe |-> 9,
                   structure |-> "4 min hard, 2 min rest x 4"],
     tempo    |-> [name |-> "Tempo Run", duration |-> 40, rpe |-> 7,
                   structure |-> "20 min warm up, 20 min tempo, 5 min cool down"],
     long     |-> [name |-> "Long Run", duration |-> 75, rpe |-> 4,
                   structure |-> "Easy pace, conversational"]]

\* f"Day {i}"
DayLabel(i) == <<"Day 1", "Day 2", "Day 3">>[i]

generate_week(user_profile, week_num) ==
    LET pace_zones == rpe_to_pace_map(user_profile.base_5k_pace)
        seq        == <<"interval", "tempo", "long">>
    IN  [i \in 1..3 |->
            LET w == workout_library[seq[i]]
            IN  [day          |-> DayLabel(i),
                 workout      |-> w.name,
                 duration     |-> w.duration,
                 rpe          |-> w.rpe,
                 context_pace |-> pace_zones[seq[i]],
                 description  |-> w.structure]]

(***************************************************************************)
(* generate_wave, lines 114-134.                                           *)
(***************************************************************************)
\* lines 125-132: the entry of week wk, with its minutes and sessions
WaveEntry(wk, minutes, sessions, is_deload, tt_dist) ==
    IF is_deload
    THEN [week_num |-> wk, minutes |-> minutes,
          sessions |-> [sessions EXCEPT ![1] =
                           [day |-> "Day 1", workout |-> TTName(tt_dist),
                            duration |-> 20, rpe |-> 9,
                            context_pace |-> <<"All-out">>,
                            description |-> "Time trial - log result"]],
          label |-> "Deload Week"]
    ELSE [week_num |-> wk, minutes |-> minutes, sessions |-> sessions]

\* lines 122-124: the minutes are rounded, then the sessions generated
\* (deload_factor = 0.7, progression_rate = 0.08)
WaveMinutes(base_minutes, offset) ==
    Round1(base_minutes, IF offset = 3 THEN 70 ELSE 100 + 8 * offset)

WeekOf(user_profile, wk, minutes, is_deload) ==
    WaveEntry(wk, minutes,
              generate_week([user_profile EXCEPT !.weekly_duration_minutes = minutes], wk),
              is_deload,
              IF user_profile.goal_distance = "5k" THEN 20 ELSE 31)

\* WaveWeek with `wk = start_week` (the offset forgotten)
WaveWeek_SameWeekNum(user_profile, start_week, base_minutes, offset) ==
    WeekOf(user_profile, start_week, WaveMinutes(base_minutes, offset), offset = 3)

\* the week of one pass of the loop `for offset in range(4)`
WaveWeek(user_profile, start_week, base_minutes, offset) ==
    WeekOf(user_profile, start_week + offset, WaveMinutes(base_minutes, offset),
           offset = 3)

generate_wave(user_profile, start_week, base_minutes) ==
    [k \in 1..4 |-> WaveWeek(user_profile, start_week, base_minutes, k - 1)]

(***************************************************************************)
(* generate_plan, lines 137-169.  The dates enter only through             *)
(* total_weeks = (race - start).days // 7.                                 *)
(***************************************************************************)
\* NextBase taking the deload week, wave[-1]["minutes"]
NextBase_Deload(wave) == wave[Len(wave)].minutes

\* base_minutes = wave[-2]["minutes"]
NextBase(wave) == wave[Len(wave) - 1].minutes

Max(a, b) == IF a >= b THEN a ELSE b

\* lines 151-154: the loop state [plan, wk_cursor, base_minutes, peak]
\* after the wave is appended
AfterWave(st, wave) ==
    [plan         |-> st.plan \o wave,
     wk_cursor    |-> st.wk_cursor + 4,
     base_minutes |-> NextBase(wave),
     peak         |-> Max(st.peak, NextBase(wave))]

\* the loop `while total_weeks - wk_cursor >= 2`
RECURSIVE WaveLoop(_, _, _)
WaveLoop(user_profile, total_weeks, st) ==
    IF total_weeks - st.wk_cursor >= 2
    THEN WaveLoop(user_profile, total_weeks,
                  AfterWave(st, generate_wave(user_profile, st.wk_cursor,
                                              st.base_minutes)))
    ELSE st

\* lines 157-158, taper = round(peak * 0.7, 1)
TaperEntry(user_profile, wk_cursor, taper) ==
    [week_num |-> wk_cursor, minutes |-> taper, label |-> "Taper Week",
     sessions |-> generate_week(
                      [user_profile EXCEPT !.weekly_duration_minutes = taper],
                      wk_cursor)]

TaperWeek(user_profile, wk_cursor, peak) ==
    TaperEntry(user_profile, wk_cursor, Round1(peak, 70))

RaceWeek(user_profile, wk_cursor, peak) ==
    [week_num |-> wk_cursor, minutes |-> Round1(peak, 50), label |-> "Race Week",
     sessions |->
        <<[day |-> "Day 1", workout |-> "6x400m Strides", duration |-> 20, rpe |-> 7,
           context_pace |-> <<"10K pace">>, description |-> "Sharpen up"],
          [day |-> "Day 3", workout |-> RaceName(user_profile.goal_distance),
           duration |-> IF Lower(user_profile.goal_distance) = "5k" THEN 25 ELSE 60,
           rpe |-> 9, context_pace |-> <<"All-out">>,
           description |-> "Race day!"]>>]

\* lines 155-169: taper and race week after the loop state st
PlanEnd(user_profile, st) ==
    st.plan \o <<TaperWeek(user_profile, st.wk_cursor, st.peak),
                 RaceWeek(user_profile, st.wk_cursor + 1, st.peak)>>

\* the list generate_plan returns when total_weeks > 0
PlanWeeks(user_profile, total_weeks, base_minutes) ==
    PlanEnd(user_profile,
            WaveLoop(user_profile, total_weeks,
                     [plan |-> <<>>, wk_cursor |-> 1,
                      base_minutes |-> base_minutes, peak |-> base_minutes]))

\* a session_state['plan'] value
NoPlan   == [kind |-> "absent", weeks |-> <<>>]
NonePlan == [kind |-> "None", weeks |-> <<>>]
ListPlan(weeks) == [kind |-> "list", weeks |-> weeks]

TotalWeeks(start_date, race) == (race - start_date) \div 7

generate_plan(user_profile, start_date, race, base_minutes) ==
    LET total_weeks == TotalWeeks(start_date, race)
    IN  IF total_weeks <= 0
        THEN NonePlan
        ELSE ListPlan(PlanWeeks(user_profile, total_weeks, base_minutes))

(***************************************************************************)
(* update_plan_with_new_pr, lines 171-200.                                 *)
(***************************************************************************)
\* new_pace_zones.get(key, "N/A")
ZoneGet(zones, key) == IF key \in DOMAIN zones THEN zones[key] ELSE <<"N/A">>

\* the body of `for session in week['sessions']`
UpdateSession(session, new_pace_zones, goal_distance) ==
    IF session.workout # TTName(IF Lower(goal_distance) = "5k" THEN 20 ELSE 31)
    THEN [session EXCEPT !.context_pace = ZoneGet(new_pace_zones, Lower(session.workout))]
    ELSE session

update_plan_with_new_pr(weeks, new_pr, goal_distance) ==
    IF ~ParsesMMSS(new_pr)
    THEN weeks
    ELSE LET new_base_pace  == BasePace(SecondsOf(new_pr))
             new_pace_zones == rpe_to_pace_map(new_base_pace)
         IN  [w \in 1..Len(weeks) |->
                 IF "sessions" \in DOMAIN weeks[w]
                 THEN [weeks[w] EXCEPT !.sessions =
                          [s \in 1..Len(weeks[w].sessions) |->
                              UpdateSession(weeks[w].sessions[s], new_pace_zones,
                                            goal_distance)]]
                 ELSE weeks[w]]

(***************************************************************************)
(* running_plan_app, lines 203-313: one run of the script.                 *)
(***************************************************************************)
\* the texts the user types into the PR box and into a time-trial box
PRTexts == {<<"2", "5", ":", "0", "0">>, <<"2", "5", "0", "0">>}
TTTexts == {<<"1", "2", ":", "0", "0">>, <<"2", "5", ":", "0", "0">>,
            <<"1", "x", ":", "0", "0">>}

\* the goals the user selects
GoalChoices == {"5K", "10K"}

\* the race dates the user picks, in days after today
RaceDates == {d \in 0..MaxDays : d % DateStep = 0} \cup {56}

\* datetime.today(): the session happens within one day
Today == 0

\* base_minutes of the call at line 230, in tenths of a minute
BaseMinutes == 2400

\* lines 249-253: tt_dates
RECURSIVE TTDates(_, _)
TTDates(total_weeks, w) ==
    IF total_weeks - w >= 2
    THEN <<Today + 7 * (w + 2)>> \o TTDates(total_weeks, w + 4)
    ELSE <<>>

\* lines 231-233 after line 230 stored p, the result of generate_plan
Generated(p, g, prw, rd) ==
    [plan |-> p, pr |-> prw, tt_inputs |-> <<>>, tt_targets |-> <<>>,
     errors |-> IF p.kind = "None"
                THEN {"Race date must be at least one week after start date."}
                ELSE {},
     gen |-> [pr |-> prw, total_weeks |-> TotalWeeks(Today, rd), goal |-> g]]

\* the profile the Generate Plan button builds from a goal and a PR
UserOf(g, p) ==
    [goal_distance |-> Lower(g), weekly_duration_minutes |-> BaseMinutes,
     base_5k_pace |-> BasePace(SecondsOf(p))]

\* lines 219-235: the Generate Plan button; S is the session state
Generate(S, g, prw, rd) ==
    IF ParsesMMSS(prw)
    THEN Generated(generate_plan(UserOf(g, prw), Today, rd, BaseMinutes), g, prw, rd)
    ELSE [S EXCEPT !.errors = {"Invalid 5K PR format. Please use MM:SS"}]

\* SlotTarget without the stored targets: computed on every run
SlotTarget_Recompute(targets, d, orig_pr, wave_num, tt_dist) ==
    compute_tt_target_range(orig_pr, wave_num, tt_dist)

\* lines 261-265: the target of the slot of date d
SlotTarget(targets, d, orig_pr, wave_num, tt_dist) ==
    IF d \notin DOMAIN targets
    THEN compute_tt_target_range(orig_pr, wave_num, tt_dist)
    ELSE targets[d]

\* lines 270-273: the input of slot i, from the widget or from the session
SlotInput(inputs, widget, i) ==
    IF i \in DOMAIN inputs THEN inputs[i]
    ELSE IF i \in DOMAIN widget THEN widget[i] ELSE <<>>

\* lines 259-300: one pass of `for i, d in enumerate(tt_dates)`
SlotStep(S, i, d, orig_pr, g, widget) ==
    LET tt_dist == IF Upper(g) = "5K" THEN 20 ELSE 31
        lohi    == SlotTarget(S.tt_targets, d, orig_pr, i + 1, tt_dist)
        targets == IF d \notin DOMAIN S.tt_targets
                   THEN (d :> lohi) @@ S.tt_targets ELSE S.tt_targets
        inp     == SlotInput(S.tt_inputs, widget, i)
        taken   == inp # <<>> /\ HasColon(inp)
        inputs  == IF taken THEN (i :> inp) @@ S.tt_inputs ELSE S.tt_inputs
        new5k   == predict_distance_time(inp, tt_dist, 31)
        applied == taken /\ new5k # NoneTime /\ ParsesMMSS(orig_pr)
        new_pr  == format_pace(new5k)
        diff    == RoundDiv(new5k, TicksPerSecond) - SecondsOf(orig_pr)
        out     == IF ~taken THEN <<>>
                   ELSE IF applied THEN format_time_difference(diff)
                   ELSE <<"Invalid TT format">>
    IN  [S EXCEPT
            !.tt_targets = targets,
            !.tt_inputs  = inputs,
            !.plan  = IF applied
                      THEN ListPlan(update_plan_with_new_pr(S.plan.weeks, new_pr, g))
                      ELSE S.plan,
            !.pr    = IF applied THEN new_pr ELSE S.pr,
            !.slots = Append(S.slots,
                             [date |-> d, low |-> lohi[1], high |-> lohi[2],
                              out |-> out,
                              new_pr |-> IF applied THEN new_pr ELSE <<>>])]

RECURSIVE SlotLoop(_, _, _, _, _, _)
SlotLoop(S, i, tt_dates, orig_pr, g, widget) ==
    IF i >= Len(tt_dates) THEN S
    ELSE SlotLoop(SlotStep(S, i, tt_dates[i + 1], orig_pr, g, widget),
                  i + 1, tt_dates, orig_pr, g, widget)

\* lines 238-313: the time-trial table and the plan
Render(S, g, rd, widget) ==
    IF S.plan.kind = "list"
    THEN LET total_weeks == TotalWeeks(Today, rd)
             T == SlotLoop([S EXCEPT !.slots = <<>>], 0, TTDates(total_weeks, 1),
                           S.pr, g, widget)
         IN  [T EXCEPT !.shown = TRUE]
    ELSE [S EXCEPT !.shown = FALSE, !.slots = <<>>]

\* one run of the script: the state it leaves
Script(button, g, prw, rd, widget) ==
    LET S0 == [plan |-> plan, pr |-> pr, tt_inputs |-> tt_inputs,
               tt_targets |-> tt_targets, gen |-> gen, errors |-> {},
               shown |-> FALSE, slots |-> <<>>]
        S1 == IF button THEN Generate(S0, g, prw, rd) @@ S0 ELSE S0
    IN  Render(S1, g, rd, widget)

\* the widgets of slots that were not rendered lose their state
KeptWidgets(widget, nslots) ==
    [i \in {j \in DOMAIN widget : j < nslots} |-> widget[i]]

Commit(S, widget) ==
    /\ plan' = S.plan
    /\ pr' = S.pr
    /\ tt_inputs' = S.tt_inputs
    /\ tt_targets' = S.tt_targets
    /\ gen' = S.gen
    \* shown: the table and the stored plan were rendered (lines 243-313)
    /\ view' = [shown |-> S.shown, slots |-> S.slots, errors |-> S.errors]
    /\ tt_widget' = KeptWidgets(widget, Len(S.slots))

Init ==
    /\ goal = "5K"
    /\ pr_input = <<"2", "5", ":", "0", "0">>
    /\ race_date = 56
    /\ tt_widget = <<>>
    /\ plan = NoPlan
    /\ pr = <<>>
    /\ tt_inputs = <<>>
    /\ tt_targets = <<>>
    /\ view = [shown |-> FALSE, slots |-> <<>>, errors |-> {}]
    /\ gen = [pr |-> <<>>, total_weeks |-> 0, goal |-> ""]

SelectGoalTo(g) ==
    /\ g # goal
    /\ goal' = g
    /\ UNCHANGED <<pr_input, race_date>>
    /\ Commit(Script(FALSE, g, pr_input, race_date, tt_widget), tt_widget)

SelectGoal == \E g \in GoalChoices : SelectGoalTo(g)

TypePRText(t) ==
    /\ t # pr_input
    /\ pr_input' = t
    /\ UNCHANGED <<goal, race_date>>
    /\ Commit(Script(FALSE, goal, t, race_date, tt_widget), tt_widget)

TypePR == \E t \in PRTexts : TypePRText(t)

PickRaceDateAt(d) ==
    /\ d # race_date
    /\ race_date' = d
    /\ UNCHANGED <<goal, pr_input>>
    /\ Commit(Script(FALSE, goal, pr_input, d, tt_widget), tt_widget)

PickRaceDate == \E d \in RaceDates : PickRaceDateAt(d)

ClickGenerate ==
    /\ UNCHANGED <<goal, pr_input, race_date>>
    /\ Commit(Script(TRUE, goal, pr_input, race_date, tt_widget), tt_widget)

\* the user types t into the box of slot i, which the page shows
TypeTTAt(i, t) ==
    /\ i \in 0..(Len(view.slots) - 1)
    /\ SlotInput(<<>>, tt_widget, i) # t
    /\ UNCHANGED <<goal, pr_input, race_date>>
    /\ LET widget == (i :> t) @@ tt_widget
       IN  Commit(Script(FALSE, goal, pr_input, race_date, widget), widget)

\* the slots there can be within the race dates of the model
SlotIndexes == 0..(MaxDays \div 28)

TypeTT == \E i \in SlotIndexes : \E t \in TTTexts : TypeTTAt(i, t)

Next == SelectGoal \/ TypePR \/ PickRaceDate \/ ClickGenerate \/ TypeTT

Spec == Init /\ [][Next]_vars

(***************************************************************************)
(* Properties.                                                             *)
(***************************************************************************)
LabelOf(week) == IF "label" \in DOMAIN week THEN week.label ELSE ""

WithLabel(weeks, l) == {i \in 1..Len(weeks) : LabelOf(weeks[i]) = l}

PlanShape(weeks) ==
    LET n == Len(weeks)
    IN  /\ n >= 2
        /\ \A i \in 1..n : weeks[i].week_num = i
        /\ WithLabel(weeks, "Taper Week") = {n - 1}
        /\ WithLabel(weeks, "Race Week") = {n}
        /\ (n - 2) % 4 = 0
        /\ \A i \in 1..(n - 2) : i % 4 = 0 => LabelOf(weeks[i]) = "Deload Week"

\* C1: in every plan of generate_plan the week numbers are 1, 2, ..., n in
\* list order, exactly one week is the Taper Week and it is second to last,
\* exactly one is the Race Week and it is last, and the weeks before them
\* are complete 4-week waves whose 4th week is labelled Deload Week.
C1_PlanShape == plan.kind = "list" => PlanShape(plan.weeks)

C1_Witness ==
    /\ plan.kind = "list"
    /\ Len(plan.weeks) = 10
    /\ LabelOf(plan.weeks[8]) = "Deload Week"
    /\ LabelOf(plan.weeks[9]) = "Taper Week"

\* C2: the number of weeks of a plan equals total_weeks, the whole weeks
\* between the start date and the race date (an 8-week span gives 8 weeks).
C2_LengthIsTotalWeeks ==
    plan.kind = "list" => Len(plan.weeks) = gen.total_weeks

\* C3: a rejected input (Generate Plan with a malformed PR or with a race
\* date less than a week away, or a malformed time-trial entry) leaves the
\* stored plan, PR, time-trial inputs and targets as they were, and the
\* plan generated before is still the one rendered.
C3_RejectedInputKeepsState ==
    [][ ( /\ plan.kind = "list"
          /\ \/ /\ ClickGenerate
                /\ \/ ~ParsesMMSS(pr_input)
                   \/ TotalWeeks(Today, race_date) <= 0
             \/ \E i \in SlotIndexes : \E t \in TTTexts :
                   TypeTTAt(i, t) /\ ~ParsesMMSS(t) )
        => ( /\ plan' = plan
             /\ pr' = pr
             /\ tt_inputs' = tt_inputs
             /\ tt_targets' = tt_targets
             /\ view'.shown ) ]_vars

ContextPaces(weeks) ==
    [w \in 1..Len(weeks) |->
        [s \in 1..Len(weeks[w].sessions) |-> weeks[w].sessions[s].context_pace]]

\* the stored plan is the one generate_plan returned, not yet recalibrated
Fresh ==
    /\ plan.kind = "list"
    /\ pr = gen.pr
    /\ plan.weeks = PlanWeeks(UserOf(gen.goal, gen.pr), gen.total_weeks, BaseMinutes)

\* C4: recalibrating a plan generated from the 5K PR p with a time trial
\* whose predicted 5K time is p leaves every session's context_pace as it was.
C4_NoOpRecalibrationKeepsPaces ==
    [][ ( /\ Fresh
          /\ TypeTT
          /\ plan'.kind = "list"
          /\ \E k \in 1..Len(view'.slots) : view'.slots[k].new_pr = gen.pr
          /\ \A k \in 1..Len(view'.slots) : view'.slots[k].new_pr \in {<<>>, gen.pr} )
        => ContextPaces(plan'.weeks) = ContextPaces(plan.weeks) ]_vars

IsTT(session) == session.workout \in {"2 mile TT", "3.1 mile TT"}

SameButPace(a, b) ==
    /\ a.day = b.day
    /\ a.workout = b.workout
    /\ a.duration = b.duration
    /\ a.rpe = b.rpe
    /\ a.description = b.description

Frame(old, new) ==
    /\ Len(new) = Len(old)
    /\ \A w \in 1..Len(old) :
          /\ new[w].week_num = old[w].week_num
          /\ new[w].minutes = old[w].minutes
          /\ LabelOf(new[w]) = LabelOf(old[w])
          /\ Len(new[w].sessions) = Len(old[w].sessions)
          /\ \A s \in 1..Len(old[w].sessions) :
                /\ SameButPace(old[w].sessions[s], new[w].sessions[s])
                /\ IsTT(old[w].sessions[s])
                       => new[w].sessions[s] = old[w].sessions[s]

\* C5: recalibration changes nothing but context_pace fields, and leaves
\* every time-trial session as it was, whatever goal is selected at the time.
C5_RecalibrationFrame ==
    [][ (plan.kind = "list" /\ plan'.kind = "list" /\ ~ClickGenerate)
        => Frame(plan.weeks, plan'.weeks) ]_vars

TTDist(g) == IF Upper(g) = "5K" THEN 20 ELSE 31

\* the delta of a time-trial entry against the PR the plan was generated from
DeltaFromOriginal(entry, g) ==
    format_time_difference(
        RoundDiv(predict_distance_time(entry, TTDist(g), 31), TicksPerSecond)
            - SecondsOf(gen.pr))

\* C6: the delta shown for a slot whose entry parses is the new predicted
\* 5K time minus the PR the plan was generated from, on every render.
C6_DeltaAgainstOriginal ==
    view.shown =>
        \A k \in 1..Len(view.slots) :
            ((k - 1) \in DOMAIN tt_inputs /\ ParsesMMSS(tt_inputs[k - 1]))
                => view.slots[k].out = DeltaFromOriginal(tt_inputs[k - 1], goal)

\* C7: a stored time-trial target changes only when Generate Plan is
\* clicked, and a render shows the stored pair for a date that has one.
C7_TargetsFixed ==
    [][ ~ClickGenerate
        => /\ \A d \in DOMAIN tt_targets :
                 d \in DOMAIN tt_targets' /\ tt_targets'[d] = tt_targets[d]
           /\ \A k \in 1..Len(view'.slots) :
                 view'.slots[k].date \in DOMAIN tt_targets
                     => <<view'.slots[k].low, view'.slots[k].high>>
                            = tt_targets[view'.slots[k].date] ]_vars

\* a render after a recalibration shows a stored pair that a new
\* computation from the recalibrated PR would not give
C7_Witness ==
    /\ view.shown
    /\ pr # gen.pr
    /\ \E k \in 1..Len(view.slots) :
          /\ view.slots[k].date \in DOMAIN tt_targets
          /\ tt_targets[view.slots[k].date]
                 = <<view.slots[k].low, view.slots[k].high>>
          /\ tt_targets[view.slots[k].date]
                 # compute_tt_target_range(pr, k, TTDist(goal))

Abs(x) == IF x < 0 THEN 0 - x ELSE x

MaxOf(S) == CHOOSE x \in S : \A y \in S : y <= x

\* the minutes of the weeks against the schedule of the claim
VolumeSchedule(weeks, b0) ==
    LET n      == Len(weeks)
        waves  == (n - 2) \div 4
        m(i)   == weeks[i].minutes
        b(j)   == IF j = 1 THEN b0 ELSE m(4 * (j - 2) + 3)
        peak   == MaxOf({b0} \cup {m(4 * (j - 1) + 3) : j \in 1..waves})
    IN  /\ \A j \in 1..waves :
              LET f == 4 * (j - 1) + 1
              IN  /\ m(f) = Round1(b(j), 100)
                  /\ m(f + 1) = Round1(b(j), 108)
                  /\ m(f + 2) = Round1(b(j), 116)
                  /\ m(f + 3) = Round1(b(j), 70)
                  /\ m(f) <= m(f + 1) /\ m(f + 1) <= m(f + 2)
                  /\ Abs(100 * m(f + 3) - 70 * b(j)) <= 50
        /\ m(n - 1) = Round1(peak, 70)
        /\ m(n) = Round1(peak, 50)
        /\ Abs(100 * m(n - 1) - 70 * peak) <= 50
        /\ Abs(100 * m(n) - 50 * peak) <= 50

\* C8: with b the base minutes of a wave (the input for the first, the
\* third-week minutes of the wave before for the others) the wave's minutes
\* are round(b,1), round(1.08b,1), round(1.16b,1), round(0.7b,1); the three
\* progression weeks do not decrease; the Taper and Race weeks carry 0.7 and
\* 0.5 times the peak base, rounded to one decimal.
C8_VolumeSchedule ==
    plan.kind = "list" => VolumeSchedule(plan.weeks, BaseMinutes)

\* two waves, the second starting at the first's third week, above its deload
C8_Witness ==
    /\ plan.kind = "list"
    /\ Len(plan.weeks) = 10
    /\ plan.weeks[5].minutes = plan.weeks[3].minutes
    /\ plan.weeks[5].minutes > plan.weeks[4].minutes
    /\ plan.weeks[9].minutes < plan.weeks[7].minutes

\* C9: at every render the page shows one time-trial slot per Deload Week
\* of the stored plan, the i-th at start + (c + 2) weeks, c the first week
\* number of the i-th wave.
C9_SlotsMatchPlan ==
    view.shown =>
        /\ Len(view.slots) = Cardinality(WithLabel(plan.weeks, "Deload Week"))
        /\ \A i \in 1..Len(view.slots) :
              view.slots[i].date = Today + 7 * ((4 * (i - 1) + 1) + 2)

\* C10: a new MM:SS value typed into a slot that has a stored entry becomes
\* the stored entry, and the PR shown for the slot is the one it predicts.
C10_LatestEntryUsed ==
    [][ \A i \in SlotIndexes : \A t \in TTTexts :
          ( /\ TypeTTAt(i, t)
            /\ plan.kind = "list"
            /\ i \in DOMAIN tt_inputs
            /\ ParsesMMSS(t) )
          => /\ tt_inputs'[i] = t
             /\ view'.slots[i + 1].new_pr
                    = format_pace(predict_distance_time(t, TTDist(goal), 31)) ]_vars

====
